---- MODULE Spec2Model ----
(***************************************************************************)
(* Model of src/MVP/quasi_core.rs: one QuasiState value (id, a QuasiField  *)
(* of two QTokens and a coherence, an observed flag) and the operations    *)
(* new, observe, measure_coherence, invert and Display::fmt.               *)
(*                                                                         *)
(* f64 is modelled by a small binary floating-point format with the same   *)
(* structure as IEEE 754 binary64: sign-magnitude, MantBits bits of        *)
(* significand, a bounded exponent, round-to-nearest-even, gradual         *)
(* underflow, signed zeros, +/-infinity on overflow and one NaN.           *)
(***************************************************************************)
EXTENDS Integers, Naturals, Sequences, FiniteSets, TLC

(* ---------------- the floating-point format ---------------- *)

\* significand width (53 in f64)
MantBits == 3
\* the unit in the last place of the smallest numbers is 2^-FracBits
FracBits == 1
\* largest exponent step above the fixed-point range; as in f64, 1.0 is
\* less than half a unit in the last place of the largest numbers
MaxExp == 3

Pow2(k) == 2 ^ k

\* a finite magnitude is n units of 2^-FracBits
Unit == Pow2(FracBits)

\* largest finite magnitude, in units (f64::MAX)
MaxFin == (Pow2(MantBits) - 1) * Pow2(MaxExp)

\* magnitudes (in units) that the format represents exactly
Mags == { m * Pow2(k) : m \in 0 .. (Pow2(MantBits) - 1), k \in 0 .. MaxExp }

Fin(s, n) == [k |-> "fin", s |-> s, n |-> n]
Inf(s) == [k |-> "inf", s |-> s, n |-> 0]
NaN == [k |-> "nan", s |-> 0, n |-> 0]

\* every value of the type
F64 == { Fin(s, n) : s \in {0, 1}, n \in Mags } \cup { Inf(0), Inf(1), NaN }

IsFinite(x) == x.k = "fin"
IsNaN(x) == x.k = "nan"

\* the literals 1.0 and 2.0
One == Fin(0, Unit)
Two == Fin(0, 2 * Unit)
Zero == Fin(0, 0)

\* num / den rounded to an integer, ties to even
RoundHalfEven(num, den) ==
    LET qq == num \div den
        rr == num % den
    IN  IF 2 * rr > den \/ (2 * rr = den /\ qq % 2 = 1) THEN qq + 1 ELSE qq

\* the exponent step at which num/den (in units) is rounded
ExpOf(num, den) ==
    IF num < Pow2(MantBits) * den THEN 0
    ELSE CHOOSE k \in 1 .. MaxExp :
            /\ num >= Pow2(MantBits + k - 1) * den
            /\ (k = MaxExp \/ num < Pow2(MantBits + k) * den)

\* the float of sign s nearest to num/den units (num >= 0, den > 0)
Round(s, num, den) ==
    IF num >= Pow2(MantBits + MaxExp) * den THEN Inf(s)
    ELSE LET k == ExpOf(num, den)
             n == RoundHalfEven(num, den * Pow2(k)) * Pow2(k)
         IN  IF n > MaxFin THEN Inf(s) ELSE Fin(s, n)

\* signed number of units of a finite float
SVal(x) == IF x.s = 1 THEN 0 - x.n ELSE x.n

\* f64::abs
FAbs(x) == IF IsNaN(x) THEN NaN ELSE [x EXCEPT !.s = 0]

FNeg(x) == IF IsNaN(x) THEN NaN ELSE [x EXCEPT !.s = 1 - x.s]

\* f64 +
FAdd(x, y) ==
    IF IsNaN(x) \/ IsNaN(y) THEN NaN
    ELSE IF x.k = "inf" /\ y.k = "inf" THEN (IF x.s = y.s THEN x ELSE NaN)
    ELSE IF x.k = "inf" THEN x
    ELSE IF y.k = "inf" THEN y
    ELSE LET v == SVal(x) + SVal(y)
         IN  IF v = 0 THEN Fin(IF x.s = 1 /\ y.s = 1 THEN 1 ELSE 0, 0)
             ELSE IF v < 0 THEN Round(1, 0 - v, 1)
             ELSE Round(0, v, 1)

\* f64 -
FSub(x, y) == FAdd(x, FNeg(y))

\* f64 /
FDiv(x, y) ==
    LET s == IF x.s = y.s THEN 0 ELSE 1
    IN  IF IsNaN(x) \/ IsNaN(y) THEN NaN
        ELSE IF x.k = "inf" THEN (IF y.k = "inf" THEN NaN ELSE Inf(s))
        ELSE IF y.k = "inf" THEN Fin(s, 0)
        ELSE IF y.n = 0 THEN (IF x.n = 0 THEN NaN ELSE Inf(s))
        ELSE Round(s, x.n * Unit, y.n)

\* x <= y on f64 (false when either side is NaN)
FLe(x, y) ==
    /\ ~IsNaN(x)
    /\ ~IsNaN(y)
    /\ LET ext(z) == IF z.k = "inf" THEN (IF z.s = 1 THEN 0 - (MaxFin + 1) ELSE MaxFin + 1)
                     ELSE SVal(z)
       IN  ext(x) <= ext(y)

(* ---------------- the data model ---------------- *)

\* caller-supplied strings (no validation: the empty string is accepted)
Ids == {"iceberg_01"}
QTypes == {"energy", ""}

\* struct QToken
QToken(qtype, value) == [qtype |-> qtype, value |-> value]

\* struct QuasiField
QuasiField(matter, antimatter, coherence) ==
    [matter |-> matter, antimatter |-> antimatter, coherence |-> coherence]

\* struct QuasiState
QuasiState(id, field, observed) == [id |-> id, field |-> field, observed |-> observed]

(* ---------------- the methods, as functions of self ---------------- *)

\* new with the + 1.0 left out of the denominator
new_no_plus_one(id, qtype, matter, antimatter) ==
    QuasiState(id,
               QuasiField(QToken(qtype, matter),
                          QToken(qtype, antimatter),
                          FSub(One, FDiv(FAbs(FSub(matter, antimatter)),
                                         FAdd(FAbs(matter), FAbs(antimatter))))),
               FALSE)

\* QuasiState::new
new(id, qtype, matter, antimatter) ==
    QuasiState(id,
               QuasiField(QToken(qtype, matter),
                          QToken(qtype, antimatter),
                          FSub(One, FDiv(FAbs(FSub(matter, antimatter)),
                                         FAdd(FAdd(FAbs(matter), FAbs(antimatter)), One)))),
               FALSE)

\* observe that flips the flag instead of setting it
observe_toggle(self) == [self EXCEPT !.observed = ~self.observed]

\* observe that also marks the collapsed state fully coherent
observe_collapse(self) == [self EXCEPT !.observed = TRUE, !.field.coherence = One]

\* QuasiState::observe, the effect on self
observe_self(self) == [self EXCEPT !.observed = TRUE]

\* observe that returns half the difference instead of half the sum
observe_ret_diff(self) == FDiv(FSub(self.field.matter.value, self.field.antimatter.value), Two)

\* QuasiState::observe, the value returned
observe_ret(self) == FDiv(FAdd(self.field.matter.value, self.field.antimatter.value), Two)

\* QuasiState::measure_coherence
measure_coherence(self) == self.field.coherence

\* invert that assigns instead of swapping: matter is lost
invert_overwrite(self) ==
    [self EXCEPT !.field.matter = self.field.antimatter]

\* invert that swaps the two magnitudes and leaves the labels in place
invert_values_only(self) ==
    [self EXCEPT !.field.matter.value = self.field.antimatter.value,
                 !.field.antimatter.value = self.field.matter.value]

\* invert that rebuilds the state and so clears the observed flag
invert_resets_observed(self) ==
    [self EXCEPT !.field.matter = self.field.antimatter,
                 !.field.antimatter = self.field.matter,
                 !.observed = FALSE]

\* QuasiState::invert (std::mem::swap of the two tokens)
invert(self) ==
    [self EXCEPT !.field.matter = self.field.antimatter,
                 !.field.antimatter = self.field.matter]

\* the format spec {:.3} applied to an f64: sign and thousandths, or inf / NaN
Fmt3(x) ==
    IF IsFinite(x) THEN [k |-> "fin", s |-> x.s, milli |-> RoundHalfEven(x.n * 1000, Unit)]
    ELSE [k |-> x.k, s |-> x.s, milli |-> 0]

\* impl Display for QuasiState: the values substituted into the format string
fmt(self) ==
    [id |-> self.id,
     qtype |-> self.field.matter.qtype,
     matter |-> Fmt3(self.field.matter.value),
     antimatter |-> Fmt3(self.field.antimatter.value),
     coherence |-> Fmt3(self.field.coherence),
     obs_state |-> IF self.observed THEN "Observed" ELSE "Superposed"]

(* ---------------- the state machine ---------------- *)

VARIABLES q, args, log, writes

vars == <<q, args, log, writes>>

\* q: the QuasiState; args: the arguments new was called with;
\* log: the two most recent calls on q, most recent first, each with the
\* value of q before the call, the value returned and the text written;
\* writes: how many direct writes to pub fields the caller has made.

None == [k |-> "none"]

Call(op, pre, ret, out) == [op |-> op, pre |-> pre, ret |-> ret, out |-> out]

Logged(c) == <<c>> \o (IF log = <<>> THEN <<>> ELSE <<log[1]>>)

Init ==
    \E id \in Ids, qtype \in QTypes, matter \in F64, antimatter \in F64 :
        /\ q = new(id, qtype, matter, antimatter)
        /\ args = [id |-> id, qtype |-> qtype, matter |-> matter, antimatter |-> antimatter]
        /\ log = <<>>
        /\ writes = 0

\* q.observe()
Observe ==
    /\ q' = observe_self(q)
    /\ log' = Logged(Call("observe", q, observe_ret(q'), None))
    /\ UNCHANGED <<args, writes>>

\* q.measure_coherence()
MeasureCoherence ==
    /\ log' = Logged(Call("measure_coherence", q, measure_coherence(q), None))
    /\ UNCHANGED <<q, args, writes>>

\* q.invert()
Invert ==
    /\ q' = invert(q)
    /\ log' = Logged(Call("invert", q, None, None))
    /\ UNCHANGED <<args, writes>>

\* format!("{}", q)
Render ==
    /\ log' = Logged(Call("fmt", q, None, fmt(q)))
    /\ UNCHANGED <<q, args, writes>>

Next == Observe \/ MeasureCoherence \/ Invert \/ Render

Spec == Init /\ [][Next]_vars

(* ---------------- direct writes to the pub fields ---------------- *)

\* how many direct writes one run of the caller makes
MaxWrites == 1

\* values a caller writes into a pub f64 field
PubVals == {Zero, One, Fin(1, MaxFin), NaN}

\* q.id = v
SetId ==
    \E v \in Ids \cup {""} :
        /\ writes < MaxWrites
        /\ q' = [q EXCEPT !.id = v]
        /\ log' = Logged(Call("set_id", q, None, None))
        /\ writes' = writes + 1
        /\ UNCHANGED args

\* q.observed = v
SetObserved ==
    \E v \in BOOLEAN :
        /\ writes < MaxWrites
        /\ q' = [q EXCEPT !.observed = v]
        /\ log' = Logged(Call("set_observed", q, None, None))
        /\ writes' = writes + 1
        /\ UNCHANGED args

\* q.field.coherence = v
SetCoherence ==
    \E v \in PubVals :
        /\ writes < MaxWrites
        /\ q' = [q EXCEPT !.field.coherence = v]
        /\ log' = Logged(Call("set_coherence", q, None, None))
        /\ writes' = writes + 1
        /\ UNCHANGED args

\* q.field.matter.qtype = v
SetMatterQtype ==
    \E v \in QTypes :
        /\ writes < MaxWrites
        /\ q' = [q EXCEPT !.field.matter.qtype = v]
        /\ log' = Logged(Call("set_matter_qtype", q, None, None))
        /\ writes' = writes + 1
        /\ UNCHANGED args

\* q.field.antimatter.qtype = v
SetAntimatterQtype ==
    \E v \in QTypes :
        /\ writes < MaxWrites
        /\ q' = [q EXCEPT !.field.antimatter.qtype = v]
        /\ log' = Logged(Call("set_antimatter_qtype", q, None, None))
        /\ writes' = writes + 1
        /\ UNCHANGED args

\* q.field.matter.value = v
SetMatterValue ==
    \E v \in PubVals :
        /\ writes < MaxWrites
        /\ q' = [q EXCEPT !.field.matter.value = v]
        /\ log' = Logged(Call("set_matter_value", q, None, None))
        /\ writes' = writes + 1
        /\ UNCHANGED args

\* q.field.antimatter.value = v
SetAntimatterValue ==
    \E v \in PubVals :
        /\ writes < MaxWrites
        /\ q' = [q EXCEPT !.field.antimatter.value = v]
        /\ log' = Logged(Call("set_antimatter_value", q, None, None))
        /\ writes' = writes + 1
        /\ UNCHANGED args

InitPub ==
    \E id \in Ids, qtype \in QTypes, matter \in PubVals, antimatter \in PubVals :
        /\ q = new(id, qtype, matter, antimatter)
        /\ args = [id |-> id, qtype |-> qtype, matter |-> matter, antimatter |-> antimatter]
        /\ log = <<>>
        /\ writes = 0

NextPub ==
    \/ Observe
    \/ MeasureCoherence
    \/ Invert
    \/ Render
    \/ SetId
    \/ SetObserved
    \/ SetCoherence
    \/ SetMatterQtype
    \/ SetAntimatterQtype
    \/ SetMatterValue
    \/ SetAntimatterValue

\* a caller that uses the methods and also writes the pub fields
SpecPub == InitPub /\ [][NextPub]_vars

(* ---------------- properties ---------------- *)

\* the most recent call and the one before it
HasLast == Len(log) >= 1
HasLast2 == Len(log) = 2
Last == log[1]
Last2 == log[2]

\* the expression 1 - (|p - s| / (|p| + |s| + 1)) evaluated in f64
CoherenceFormula(p, s) ==
    FSub(One, FDiv(FAbs(FSub(p, s)), FAdd(FAdd(FAbs(p), FAbs(s)), One)))

\* the rendered state tag of a logged fmt call
Tag(c) == c.out.obs_state

\* C1: the observed flag is one-way. A constructed state is not observed and
\* renders as "Superposed"; every observe leaves the flag set; once set, no
\* observe, invert, measure_coherence or fmt clears it; and fmt renders
\* "Observed" exactly when the flag is set.
C1_ObservedOneWay ==
    /\ ~q.observed
    /\ fmt(q).obs_state = "Superposed"
    /\ [][/\ q.observed => q'.observed
          /\ Last'.op = "observe" => q'.observed
          /\ Last'.op = "fmt" =>
                Tag(Last') = (IF q'.observed THEN "Observed" ELSE "Superposed")]_vars

\* C1 witness: observe, then fmt, and the text says "Observed"
C1_Witness ==
    /\ HasLast2
    /\ Last2.op = "observe"
    /\ ~Last2.pre.observed
    /\ Last.op = "fmt"
    /\ Tag(Last) = "Observed"
    /\ q.observed

\* C2: right after new(id, qtype, a, b) with finite a and b the stored
\* coherence is 1 - (|a - b| / (|a| + |b| + 1)).
C2_CoherenceAtConstruct ==
    (log = <<>> /\ IsFinite(args.matter) /\ IsFinite(args.antimatter)) =>
        q.field.coherence = CoherenceFormula(args.matter, args.antimatter)

\* C2 witness: new(_, _, 1.0, 0.0) stores 1 - 1/2 = 0.5
C2_Witness ==
    /\ log = <<>>
    /\ args.matter = One
    /\ args.antimatter = Zero
    /\ q.field.coherence = Fin(0, Unit \div 2)

\* C3: for finite constructor arguments the stored coherence is in [0, 1]
\* in every state reached by observe and invert.
C3_CoherenceInUnitInterval ==
    (IsFinite(args.matter) /\ IsFinite(args.antimatter)) =>
        (FLe(Zero, q.field.coherence) /\ FLe(q.field.coherence, One))

\* C4: in every state reached by invert and observe the stored coherence
\* equals the formula evaluated on the current primary and secondary values.
C4_CoherenceMatchesCurrent ==
    q.field.coherence =
        CoherenceFormula(q.field.matter.value, q.field.antimatter.value)

\* C4 witness: an invert has exchanged two different magnitudes
C4_Witness ==
    /\ HasLast
    /\ Last.op = "invert"
    /\ q.field.matter.value = Zero
    /\ q.field.antimatter.value = One
    /\ q.field.coherence = Fin(0, Unit \div 2)

\* C5: two consecutive inverts give back the state the first one started
\* from, in every field.
C5_InvertInvolution ==
    (HasLast2 /\ Last.op = "invert" /\ Last2.op = "invert") => q = Last2.pre

\* C5 witness: two inverts on an observed state with different magnitudes
C5_Witness ==
    /\ HasLast2
    /\ Last.op = "invert"
    /\ Last2.op = "invert"
    /\ q.observed
    /\ q.field.matter.value # q.field.antimatter.value
    /\ Last.pre # q

\* C6: observe returns (matter + antimatter) / 2, and a second consecutive
\* observe returns the same value and leaves the state as the first left it.
C6_ObserveIdempotent ==
    /\ (HasLast /\ Last.op = "observe") =>
          Last.ret = FDiv(FAdd(q.field.matter.value, q.field.antimatter.value), Two)
    /\ (HasLast2 /\ Last.op = "observe" /\ Last2.op = "observe") =>
          (Last.ret = Last2.ret /\ q = Last.pre)

\* C6 witness: two observes in a row from a superposed state, returning 0.5
C6_Witness ==
    /\ HasLast2
    /\ Last.op = "observe"
    /\ Last2.op = "observe"
    /\ ~Last2.pre.observed
    /\ Last.ret = Fin(0, Unit \div 2)

\* C7: one invert exchanges the two tokens whole (label with magnitude) and
\* leaves id, coherence and the observed flag alone; it can be called in
\* both the superposed and the observed state.
C7_InvertFrame ==
    /\ (HasLast /\ Last.op = "invert") =>
          /\ q.field.matter = Last.pre.field.antimatter
          /\ q.field.antimatter = Last.pre.field.matter
          /\ q.id = Last.pre.id
          /\ q.field.coherence = Last.pre.field.coherence
          /\ measure_coherence(q) = measure_coherence(Last.pre)
          /\ q.observed = Last.pre.observed
    /\ ENABLED Invert

\* C7 witness: an invert on an observed state whose tokens differ in label
\* and in magnitude
C7_Witness ==
    /\ HasLast
    /\ Last.op = "invert"
    /\ q.observed
    /\ q.field.matter.qtype # q.field.antimatter.qtype
    /\ q.field.matter.value # q.field.antimatter.value

\* C8: observe changes only the observed flag, and what it returns is a
\* function of the two magnitudes alone.
C8_ObserveFrame ==
    (HasLast /\ Last.op = "observe") =>
        /\ q = [Last.pre EXCEPT !.observed = TRUE]
        /\ Last.ret = FDiv(FAdd(Last.pre.field.matter.value,
                                Last.pre.field.antimatter.value), Two)

\* C8 witness: the first observe of a state with different magnitudes
C8_Witness ==
    /\ HasLast
    /\ Last.op = "observe"
    /\ ~Last.pre.observed
    /\ q.observed
    /\ q.field.matter.value # q.field.antimatter.value
    /\ IsFinite(Last.ret)

\* C9: nothing a caller of a QuasiState can do changes the stored coherence,
\* or a magnitude other than by exchanging the two tokens.
C9_CoherenceNotSettable ==
    [][/\ q'.field.coherence = q.field.coherence
       /\ {q'.field.matter.value, q'.field.antimatter.value}
              = {q.field.matter.value, q.field.antimatter.value}]_vars

\* C10: observe and invert commute. The state after observe-then-invert is
\* the state invert-then-observe gives, and observe returns the same value
\* before and after an invert.
C10_ObserveInvertCommute ==
    /\ (HasLast2 /\ Last2.op = "observe" /\ Last.op = "invert") =>
          /\ q = observe_self(invert(Last2.pre))
          /\ Last2.ret = observe_ret(observe_self(invert(Last2.pre)))
    /\ (HasLast2 /\ Last2.op = "invert" /\ Last.op = "observe") =>
          /\ q = invert(observe_self(Last2.pre))
          /\ Last.ret = observe_ret(observe_self(Last2.pre))

\* C10 witness: invert then observe on different magnitudes
C10_Witness ==
    /\ HasLast2
    /\ Last2.op = "invert"
    /\ Last.op = "observe"
    /\ q.field.matter.value = One
    /\ q.field.antimatter.value = Zero
    /\ Last.ret = Fin(0, Unit \div 2)

====
